---- MODULE Spec2Model ----
(***************************************************************************)
(* A model of the three scripts of scrapper2000:                           *)
(*   claimgenerator.py   - the claim (PDF) generator,                      *)
(*   clinic_scrapper.py  - the clinic directory scraper,                   *)
(*   doctor_scrapper.py  - the doctor registry scraper.                    *)
(*                                                                         *)
(* Python values are represented as follows.                               *)
(*   - A Python str whose characters matter (a number rendered as text)    *)
(*     is a sequence of one-character strings, <<"8","0","0">>.  Names     *)
(*     that are only compared or copied are TLA+ strings.                  *)
(*   - A JSON scalar is [t |-> "int", n |-> 800, s |-> <<>>] or            *)
(*     [t |-> "str", n |-> 0, s |-> <<"a","b">>].                          *)
(*   - A float is the integer number of its hundredths; the numerals of    *)
(*     the model have at most two decimals, where this is exact.           *)
(*   - A file is a record with an exists flag and its data.                *)
(*   - A call that may raise returns [ok |-> BOOLEAN, ...].                *)
(***************************************************************************)
EXTENDS Integers, Sequences, FiniteSets, TLC

VARIABLES
    prog,                  \* which script this run executes
    pc,                    \* position of the script's main thread
    files,                 \* the generator's input files (read-only in a run)
    designFile,            \* design.json
    logos,                 \* logos/logo_<clinic>.png, per clinic
    outputs,               \* output/<kind>_claim_<i>.pdf, per path
    legitimate_count,      \* claimgenerator.py:297
    fraudulent_count,      \* claimgenerator.py:298
    clinics_info,          \* main's locals, claimgenerator.py:301-303
    doctors_info,
    specialties_diseases,
    designs,
    billing_items_data,
    slot,                  \* loop index i of the running submit loop
    tasks,                 \* the futures list: one record per submitted task
    yielded,               \* futures as_completed has handed to the loop
    pbar,                  \* the progress counter
    log,                   \* what was logged by the main thread
    skipped,               \* slots whose doctor had no diagnosis list
    picked,                \* the random.choice results of the visited slots
    logoGens,              \* per clinic, calls of generate_logo in this run
    links,                 \* all_hospital_links, clinic_scrapper.py:145
    records,               \* hospital_details / all_doctors
    csv,                   \* the CSV file the running scraper writes
    arg,                   \* argument of the function under test
    ret                    \* its result

vars == <<prog, pc, files, designFile, logos, outputs, legitimate_count,
          fraudulent_count, clinics_info, doctors_info, specialties_diseases,
          designs, billing_items_data, slot, tasks, yielded, pbar, log,
          skipped, picked, logoGens, links, records, csv, arg, ret>>

-----------------------------------------------------------------------------
(* Python text and numbers                                                 *)

DigitChars == <<"0", "1", "2", "3", "4", "5", "6", "7", "8", "9">>

IsDigit(c) == \E d \in 1..Len(DigitChars) : DigitChars[d] = c

DigitVal(c) == (CHOOSE d \in 1..Len(DigitChars) : DigitChars[d] = c) - 1

\* str(n) of a non-negative int
RECURSIVE PyStrInt(_)
PyStrInt(n) ==
    IF n < 10 THEN <<DigitChars[n + 1]>>
    ELSE PyStrInt(n \div 10) \o <<DigitChars[(n % 10) + 1]>>

\* str(v) of a JSON scalar: a str is returned as it is
PyStr(v) == IF v.t = "int" THEN PyStrInt(v.n) ELSE v.s

AllDigits(s) == \A k \in 1..Len(s) : IsDigit(s[k])

RECURSIVE DigitsVal(_)
DigitsVal(s) ==
    IF s = <<>> THEN 0
    ELSE 10 * DigitsVal(SubSeq(s, 1, Len(s) - 1)) + DigitVal(s[Len(s)])

DotAt(s) ==
    IF \E k \in 1..Len(s) : s[k] = "."
    THEN CHOOSE k \in 1..Len(s) : s[k] = "." /\ \A j \in 1..(k - 1) : s[j] # "."
    ELSE 0

\* float(s) for an unsigned decimal numeral; anything else raises ValueError.
\* The value is in hundredths.
PyFloat(s) ==
    LET d    == DotAt(s)
        ip   == IF d = 0 THEN s ELSE SubSeq(s, 1, d - 1)
        fp   == IF d = 0 THEN <<>> ELSE SubSeq(s, d + 1, Len(s))
        fp2  == IF Len(fp) = 0 THEN <<"0", "0">>
                ELSE IF Len(fp) = 1 THEN fp \o <<"0">> ELSE fp
    IN  IF AllDigits(ip) /\ AllDigits(fp) /\ Len(ip) + Len(fp) > 0 /\ Len(fp) <= 2
        THEN [ok |-> TRUE, val |-> 100 * DigitsVal(ip) + DigitsVal(fp2)]
        ELSE [ok |-> FALSE, val |-> 0]

\* a variant that prints the float with str(): 800.0, 512.5, 0.05
PyFmtStr(x) ==
    PyStrInt(x \div 100) \o <<".">>
        \o (IF x % 10 = 0 THEN <<DigitChars[((x % 100) \div 10) + 1]>>
            ELSE <<DigitChars[((x % 100) \div 10) + 1], DigitChars[(x % 10) + 1]>>)

\* f"{x:.2f}" of a non-negative float given in hundredths
PyFmt2(x) ==
    PyStrInt(x \div 100) \o <<".">>
        \o <<DigitChars[((x % 100) \div 10) + 1], DigitChars[(x % 10) + 1]>>

RECURSIVE SeqSum(_)
SeqSum(s) == IF s = <<>> THEN 0 ELSE s[1] + SeqSum(Tail(s))

JInt(n) == [t |-> "int", n |-> n, s |-> <<>>]

JStr(s) == [t |-> "str", n |-> 0, s |-> s]

-----------------------------------------------------------------------------
(* Billing lines, claimgenerator.py:275-291                                *)

BillingItem(item, desc, qty, unit, total) ==
    ("Item" :> item) @@ ("Description" :> desc) @@ ("Quantity" :> qty)
        @@ ("Unit Price" :> unit) @@ ("Total" :> total)

FallbackItems ==
    << <<"Consultation", "General Consultation", <<"1">>,
         <<"1", "0", "0", "0">>, <<"1", "0", "0", "0">> >>,
       <<"Lab Test", "General Lab Test", <<"1">>,
         <<"5", "0", "0">>, <<"5", "0", "0">> >> >>

\* billing_items_data.get(diagnosis, {}).get("billing_items", [])
LookupItems(diagnosis, data) ==
    IF diagnosis \in DOMAIN data /\ "billing_items" \in DOMAIN data[diagnosis]
    THEN data[diagnosis]["billing_items"]
    ELSE <<>>

ItemRow(item) ==
    <<item["Item"], item["Description"], PyStr(item["Quantity"]),
      PyStr(item["Unit Price"]), PyStr(item["Total"])>>

\* a variant that falls back only when the diagnosis has no entry at all
billing_items_if_listed(diagnosis, data) ==
    IF diagnosis \notin DOMAIN data THEN FallbackItems
    ELSE LET items == LookupItems(diagnosis, data)
         IN  [k \in 1..Len(items) |-> ItemRow(items[k])]

get_billing_items_for_diagnosis(diagnosis, data) ==
    LET items == LookupItems(diagnosis, data)
    IN  IF items = <<>> THEN FallbackItems
        ELSE [k \in 1..Len(items) |-> ItemRow(items[k])]

-----------------------------------------------------------------------------
(* The world of the claim generator                                        *)

MaxSlots == 2

NumPrimary == 2

NumSecondary == 1

NumFont == 1

ClinicNames == {"Clinic A", "Clinic B"}

Doctor(name, specialty) == <<name, specialty>>

\* random.choice's palettes, claimgenerator.py:55-57
primary_colors == <<"#1f77b4", "#ff7f0e", "#2ca02c", "#d62728", "#9467bd">>

secondary_colors == <<"#aec7e8", "#ffbb78", "#98df8a", "#ff9896", "#c5b0d5">>

fonts == <<"Helvetica-Bold", "Times-Roman", "Courier">>

Min(a, b) == IF a < b THEN a ELSE b

Design(p, s, f) ==
    ("primary_color" :> p) @@ ("secondary_color" :> s) @@ ("font" :> f)

\* the styles the three random.choice calls can produce, within the bounds
Styles ==
    { Design(primary_colors[p], secondary_colors[s], fonts[f]) :
        p \in 1..Min(NumPrimary, Len(primary_colors)),
        s \in 1..Min(NumSecondary, Len(secondary_colors)),
        f \in 1..Min(NumFont, Len(fonts)) }

NoFile(empty) == [exists |-> FALSE, data |-> empty]

File(data) == [exists |-> TRUE, data |-> data]

EmptyMap == [k \in {} |-> 0]

\* disease_consultation.json: its "diagnoses" object
BillingTable ==
    ("Flu" :> ("billing_items" :>
        << BillingItem("Consult", "GP visit", JInt(1), JInt(800), JInt(800)) >>))
    @@ ("Rash" :> ("billing_items" :>
        << BillingItem("Cream", "Ointment", JInt(2), JInt(300), JInt(500)),
           BillingItem("Lab", "Skin test", JInt(1), JStr(<<"1", "2", ".", "5">>),
                       JStr(<<"1", "2", ".", "5">>)) >>))
    @@ ("Cough" :> ("billing_items" :>
        << BillingItem("Syrup", "Cough syrup", JInt(1), JInt(90),
                       JStr(<<"n", "/", "a">>)) >>))
    @@ ("Cold" :> ("billing_items" :> <<>>))

OneClinic == File(<<"Clinic A">>)

TwoClinics == File(<<"Clinic A", "Clinic B">>)

OneDoctor == File(<<Doctor("Dr X", "GP")>>)

\* Dr Y's specialty is in no specialty table below
TwoDoctors == File(<<Doctor("Dr X", "GP"), Doctor("Dr Y", "Dermatology")>>)

OneDiagnosis == File("GP" :> <<"Flu">>)

ThreeDiagnoses == File("GP" :> <<"Flu", "Rash", "Cough">>)

Inputs(c, d, s, b) ==
    [clinics |-> c, doctors |-> d, specialties |-> s, billing |-> b]

\* input files load_data accepts
GoodInputs ==
    { Inputs(OneClinic, OneDoctor, OneDiagnosis, File(BillingTable)),
      Inputs(OneClinic, OneDoctor, OneDiagnosis, NoFile(EmptyMap)),
      Inputs(TwoClinics, TwoDoctors, OneDiagnosis, File(BillingTable)),
      Inputs(OneClinic, OneDoctor, ThreeDiagnoses, File(BillingTable)) }

\* input files with one table missing or empty
BadInputs ==
    { Inputs(c, OneDoctor, OneDiagnosis, File(BillingTable)) :
        c \in {NoFile(<<>>), File(<<>>)} }
    \cup { Inputs(OneClinic, d, OneDiagnosis, File(BillingTable)) :
        d \in {NoFile(<<>>), File(<<>>)} }
    \cup { Inputs(OneClinic, OneDoctor, m, File(BillingTable)) :
        m \in {NoFile(EmptyMap), File(EmptyMap)} }

InputFiles == GoodInputs \cup BadInputs

\* a CSV file that does not exist; writes counts this run's writes of it
NoCsv == [exists |-> FALSE, data |-> [header |-> <<>>, rows |-> <<>>],
          writes |-> 0]

\* a CSV file an earlier run has left
OldCsv(header, rows) ==
    [exists |-> TRUE, data |-> [header |-> header, rows |-> rows], writes |-> 0]

-----------------------------------------------------------------------------
(* claimgenerator.py: loading                                              *)

\* a variant that accepts a clinic CSV without data rows
load_data_unchecked(f) ==
    IF ~f.clinics.exists THEN [ok |-> FALSE, err |-> "FileNotFoundError"]
    ELSE IF ~f.doctors.exists THEN [ok |-> FALSE, err |-> "FileNotFoundError"]
    ELSE IF f.doctors.data = <<>> THEN [ok |-> FALSE, err |-> "ValueError"]
    ELSE IF ~f.specialties.exists THEN [ok |-> FALSE, err |-> "FileNotFoundError"]
    ELSE IF DOMAIN f.specialties.data = {} THEN [ok |-> FALSE, err |-> "ValueError"]
    ELSE [ok |-> TRUE, err |-> "none"]

\* load_data, claimgenerator.py:64-105: the three tables, or the error raised
load_data(f) ==
    IF ~f.clinics.exists THEN [ok |-> FALSE, err |-> "FileNotFoundError"]
    ELSE IF f.clinics.data = <<>> THEN [ok |-> FALSE, err |-> "ValueError"]
    ELSE IF ~f.doctors.exists THEN [ok |-> FALSE, err |-> "FileNotFoundError"]
    ELSE IF f.doctors.data = <<>> THEN [ok |-> FALSE, err |-> "ValueError"]
    ELSE IF ~f.specialties.exists THEN [ok |-> FALSE, err |-> "FileNotFoundError"]
    ELSE IF DOMAIN f.specialties.data = {} THEN [ok |-> FALSE, err |-> "ValueError"]
    ELSE [ok |-> TRUE, err |-> "none"]

\* load_billing_items, claimgenerator.py:108-120
load_billing_items(f) == IF f.billing.exists THEN f.billing.data ELSE EmptyMap

Range(s) == { s[k] : k \in 1..Len(s) }

\* a variant that draws the styles again when a listed clinic has none
designs_redrawn(clinics, file) ==
    IF file.exists /\ Range(clinics) \subseteq DOMAIN file.data THEN {file.data}
    ELSE [Range(clinics) -> Styles]

\* the designs load_or_create_designs may return for this clinic list and
\* this state of design.json, claimgenerator.py:47-61
load_or_create_designs(clinics, file) ==
    IF file.exists THEN {file.data}
    ELSE [Range(clinics) -> Styles]

\* what load_or_create_designs leaves in design.json when it returns d
DesignFileAfter(file, d) == IF file.exists THEN file ELSE File(d)

-----------------------------------------------------------------------------
(* claimgenerator.py: the main thread, lines 294-337                       *)

Kinds == {"legitimate", "fraudulent"}

Paths == Kinds \X (0..(MaxSlots - 1))

NoDoc == [total |-> <<>>, line |-> <<>>, complete |-> FALSE, run |-> "none"]

Logged(level, event, who) == <<level, event, who>>

\* the loop position that follows slot i - 1 of a kind
LoopPos(kind, i) ==
    IF kind = "legitimate" /\ i < legitimate_count THEN <<"legit_loop", i>>
    ELSE IF kind = "legitimate" /\ 0 < fraudulent_count THEN <<"fraud_loop", 0>>
    ELSE IF kind = "fraudulent" /\ i < fraudulent_count THEN <<"fraud_loop", i>>
    ELSE <<"as_completed", 0>>

LoopKind == IF pc = "legit_loop" THEN "legitimate" ELSE "fraudulent"

Resolved(t) == tasks[t].pc \in {"done", "failed"}

\* a variant that leaves the pool without waiting: shutdown(wait=False)
PoolNotJoined == TRUE

\* ThreadPoolExecutor.__exit__ is shutdown(wait=True), claimgenerator.py:306
PoolJoined == \A t \in 1..Len(tasks) : Resolved(t)

\* as_completed hands out a future once it has finished, claimgenerator.py:331
Completed(t) == Resolved(t)

NewTask(kind, i, clinic, doctor, diagnosis, design, items) ==
    [pc |-> "queued", kind |-> kind, idx |-> i, clinic |-> clinic,
     doctor |-> doctor, diagnosis |-> diagnosis, design |-> design,
     billing_items |-> items, seen |-> "none", regen |-> FALSE,
     wrote |-> FALSE, verified |-> FALSE, drawn |-> FALSE]

MainLocals == <<clinics_info, doctors_info, specialties_diseases, designs,
                billing_items_data>>

Disk == <<designFile, logos, outputs>>

Scraped == <<links, records, csv>>

Params == <<prog, files, legitimate_count, fraudulent_count, Scraped, arg, ret>>

\* line 301: load_data(); on an error it logs, re-raises, and line 337 logs
LoadData ==
    /\ prog = "claims" /\ pc = "load_data"
    /\ LET r == load_data(files)
       IN  IF r.ok
           THEN /\ clinics_info' = files.clinics.data
                /\ doctors_info' = files.doctors.data
                /\ specialties_diseases' = files.specialties.data
                /\ pc' = "load_designs"
                /\ log' = log
           ELSE /\ pc' = "done"
                /\ log' = log \cup {Logged("ERROR", "Error loading data", 0),
                                    Logged("ERROR", "Fatal error", 0)}
                /\ UNCHANGED <<clinics_info, doctors_info, specialties_diseases>>
    /\ UNCHANGED <<Params, Disk, designs, billing_items_data, slot, tasks,
                   yielded, pbar, skipped, picked, logoGens>>

\* line 302
LoadDesigns ==
    /\ prog = "claims" /\ pc = "load_designs"
    /\ \E d \in load_or_create_designs(clinics_info, designFile) :
          /\ designs' = d
          /\ designFile' = DesignFileAfter(designFile, d)
    /\ pc' = "load_billing"
    /\ UNCHANGED <<Params, logos, outputs, clinics_info, doctors_info,
                   specialties_diseases, billing_items_data, slot, tasks,
                   yielded, pbar, log, skipped, picked,
                   logoGens>>

\* line 303, then the pool and the progress bar are entered (306-309)
LoadBilling ==
    /\ prog = "claims" /\ pc = "load_billing"
    /\ billing_items_data' = load_billing_items(files)
    /\ log' = IF files.billing.exists THEN log
              ELSE log \cup {Logged("ERROR", "Error loading billing items", 0)}
    /\ pc' = LoopPos("legitimate", 0)[1]
    /\ slot' = 0
    /\ UNCHANGED <<Params, Disk, clinics_info, doctors_info,
                   specialties_diseases, designs, tasks, yielded, pbar,
                   skipped, picked, logoGens>>

\* what the two random.choice calls of a slot returned, lines 311-312
Pick(kind, i, clinic, doctor) ==
    [kind |-> kind, idx |-> i, clinic |-> clinic, doctor |-> doctor]

\* a variant that draws again for a slot whose doctor has no diagnosis list
SlotRetried(c, d) ==
    /\ prog = "claims" /\ pc \in {"legit_loop", "fraud_loop"}
    /\ LET clinic    == clinics_info[c]
           doctor    == doctors_info[d]
           specialty == doctor[2]
           next      == LoopPos(LoopKind, slot + 1)
       IN  IF specialty \in DOMAIN specialties_diseases
           THEN /\ picked' = Append(picked, Pick(LoopKind, slot, clinic, doctor))
                /\ IF specialties_diseases[specialty] = <<>>
                      \/ clinic \notin DOMAIN designs
                   THEN /\ pc' = "raised"
                        /\ UNCHANGED <<slot, tasks, skipped>>
                   ELSE \E g \in 1..Len(specialties_diseases[specialty]) :
                          LET diagnosis == specialties_diseases[specialty][g]
                              items == get_billing_items_for_diagnosis(
                                           diagnosis, billing_items_data)
                          IN  /\ tasks' = Append(tasks,
                                      NewTask(LoopKind, slot, clinic, doctor,
                                              diagnosis, designs[clinic], items))
                              /\ pc' = next[1]
                              /\ slot' = next[2]
                              /\ UNCHANGED skipped
           ELSE /\ skipped' = skipped \cup {<<LoopKind, slot>>}
                /\ UNCHANGED <<pc, slot, tasks, picked>>
    /\ UNCHANGED <<Params, Disk, MainLocals, yielded, pbar, log, logoGens>>

\* a variant that passes over a slot whose clinic has no style in the store
SlotConfined(c, d) ==
    /\ prog = "claims" /\ pc \in {"legit_loop", "fraud_loop"}
    /\ LET clinic    == clinics_info[c]
           doctor    == doctors_info[d]
           specialty == doctor[2]
           next      == LoopPos(LoopKind, slot + 1)
       IN  /\ picked' = Append(picked, Pick(LoopKind, slot, clinic, doctor))
           /\ IF specialty \in DOMAIN specialties_diseases
                 /\ clinic \in DOMAIN designs
              THEN IF specialties_diseases[specialty] = <<>>
                   THEN /\ pc' = "raised"
                        /\ UNCHANGED <<slot, tasks, skipped>>
                   ELSE \E g \in 1..Len(specialties_diseases[specialty]) :
                          LET diagnosis == specialties_diseases[specialty][g]
                              items == get_billing_items_for_diagnosis(
                                           diagnosis, billing_items_data)
                          IN  /\ tasks' = Append(tasks,
                                      NewTask(LoopKind, slot, clinic, doctor,
                                              diagnosis, designs[clinic], items))
                              /\ pc' = next[1]
                              /\ slot' = next[2]
                              /\ UNCHANGED skipped
              ELSE /\ skipped' = skipped \cup {<<LoopKind, slot>>}
                   /\ pc' = next[1]
                   /\ slot' = next[2]
                   /\ UNCHANGED tasks
    /\ UNCHANGED <<Params, Disk, MainLocals, yielded, pbar, log, logoGens>>

\* one iteration of a submit loop, lines 310-318 and 320-328
Slot(c, d) ==
    /\ prog = "claims" /\ pc \in {"legit_loop", "fraud_loop"}
    /\ LET clinic    == clinics_info[c]
           doctor    == doctors_info[d]
           specialty == doctor[2]
           next      == LoopPos(LoopKind, slot + 1)
       IN  /\ picked' = Append(picked, Pick(LoopKind, slot, clinic, doctor))
           /\ IF specialty \in DOMAIN specialties_diseases
              THEN IF specialties_diseases[specialty] = <<>>
                      \/ clinic \notin DOMAIN designs
                   THEN \* random.choice([]) or designs[...] raises in the loop
                        /\ pc' = "raised"
                        /\ UNCHANGED <<slot, tasks, skipped>>
                   ELSE \E g \in 1..Len(specialties_diseases[specialty]) :
                          LET diagnosis == specialties_diseases[specialty][g]
                              items == get_billing_items_for_diagnosis(
                                           diagnosis, billing_items_data)
                          IN  /\ tasks' = Append(tasks,
                                      NewTask(LoopKind, slot, clinic, doctor,
                                              diagnosis, designs[clinic], items))
                              /\ pc' = next[1]
                              /\ slot' = next[2]
                              /\ UNCHANGED skipped
              ELSE /\ skipped' = skipped \cup {<<LoopKind, slot>>}
                   /\ pc' = next[1]
                   /\ slot' = next[2]
                   /\ UNCHANGED tasks
    /\ UNCHANGED <<Params, Disk, MainLocals, yielded, pbar, log, logoGens>>

\* the completion loop, lines 331-333
AsCompleted(t) ==
    /\ prog = "claims" /\ pc = "as_completed"
    /\ t \notin yielded
    /\ Completed(t)
    /\ yielded' = yielded \cup {t}
    /\ pbar' = pbar + 1
    /\ UNCHANGED <<Params, Disk, MainLocals, pc, slot, tasks, log, skipped,
                   picked, logoGens>>

\* the loop is exhausted, the pool is left, line 335 logs the success
PoolExit ==
    /\ prog = "claims" /\ pc = "as_completed"
    /\ yielded = 1..Len(tasks)
    /\ PoolJoined
    /\ pc' = "done"
    /\ log' = log \cup {Logged("INFO", "Successfully generated", 0)}
    /\ UNCHANGED <<Params, Disk, MainLocals, slot, tasks, yielded, pbar,
                   skipped, picked, logoGens>>

\* an exception leaves the with blocks: the pool is joined, line 337 logs
PoolExitRaised ==
    /\ prog = "claims" /\ pc = "raised"
    /\ PoolJoined
    /\ pc' = "done"
    /\ log' = log \cup {Logged("ERROR", "Fatal error", 0)}
    /\ UNCHANGED <<Params, Disk, MainLocals, slot, tasks, yielded, pbar,
                   skipped, picked, logoGens>>

-----------------------------------------------------------------------------
(* claimgenerator.py: a render task, generate_claim_pdf, lines 179-272     *)

StyleFields == {"primary_color", "secondary_color", "font"}

\* verify_logo, claimgenerator.py:158-176, on the state of the logo file
verify_logo(file) == file = "valid"

\* a variant that only looks whether the file is there
NeedsLogoIfMissing(file) == file = "missing"

\* line 206: not os.path.exists(logo_file) or not verify_logo(logo_file)
NeedsLogo(file) == file = "missing" \/ ~verify_logo(file)

\* a variant that sums the unit-price column, item[3]
total_of_unit_prices(items) ==
    LET parsed == [k \in 1..Len(items) |-> PyFloat(items[k][4])]
    IN  IF \A k \in 1..Len(items) : parsed[k].ok
        THEN [ok |-> TRUE,
              val |-> SeqSum([k \in 1..Len(items) |-> parsed[k].val])]
        ELSE [ok |-> FALSE, val |-> 0]

\* line 257: sum([float(item[4]) for item in billing_items])
total_amount(items) ==
    LET parsed == [k \in 1..Len(items) |-> PyFloat(items[k][5])]
    IN  IF \A k \in 1..Len(items) : parsed[k].ok
        THEN [ok |-> TRUE,
              val |-> SeqSum([k \in 1..Len(items) |-> parsed[k].val])]
        ELSE [ok |-> FALSE, val |-> 0]

PathOf(t) == <<tasks[t].kind, tasks[t].idx>>

\* line 272: the except clause logs and returns
TaskFailed(t) == Logged("ERROR", "Error generating claim PDF", t)

MainState == <<pc, slot, yielded, pbar, skipped, picked>>

\* lines 192-206: patient, canvas, style fields, then the logo is looked at
TaskBegin(t) ==
    /\ prog = "claims" /\ t \in 1..Len(tasks) /\ tasks[t].pc = "queued"
    /\ IF StyleFields \subseteq DOMAIN tasks[t].design
       THEN /\ tasks' = [tasks EXCEPT
                   ![t].seen = logos[tasks[t].clinic],
                   ![t].pc = IF NeedsLogo(logos[tasks[t].clinic])
                             THEN "gen_logo" ELSE "verify"]
            /\ log' = log
       ELSE /\ tasks' = [tasks EXCEPT ![t].pc = "failed"]
            /\ log' = log \cup {TaskFailed(t)}
    /\ UNCHANGED <<Params, Disk, MainLocals, MainState, logoGens>>

\* line 207, generate_logo up to the moment img.save opens the file (151);
\* an error before that is caught by generate_logo itself (154-156)
GenLogoOpen(t) ==
    /\ prog = "claims" /\ t \in 1..Len(tasks) /\ tasks[t].pc = "gen_logo"
    /\ logoGens' = [logoGens EXCEPT ![tasks[t].clinic] = @ + 1]
    /\ \E opened \in BOOLEAN :
          IF opened
          THEN /\ logos' = [logos EXCEPT ![tasks[t].clinic] = "corrupt"]
               /\ tasks' = [tasks EXCEPT ![t].regen = TRUE, ![t].wrote = TRUE,
                                         ![t].pc = "gen_write"]
          ELSE /\ logos' = logos
               /\ tasks' = [tasks EXCEPT ![t].regen = TRUE, ![t].pc = "verify"]
    /\ UNCHANGED <<Params, designFile, outputs, MainLocals, MainState, log>>

\* img.save writes the image out, or fails half way (151, 154-156)
GenLogoWrite(t) ==
    /\ prog = "claims" /\ t \in 1..Len(tasks) /\ tasks[t].pc = "gen_write"
    /\ \E saved \in BOOLEAN :
          logos' = IF saved THEN [logos EXCEPT ![tasks[t].clinic] = "valid"]
                   ELSE logos
    /\ tasks' = [tasks EXCEPT ![t].pc = "verify"]
    /\ UNCHANGED <<Params, designFile, outputs, MainLocals, MainState, log,
                   logoGens>>

\* line 209
VerifyLogo(t) ==
    /\ prog = "claims" /\ t \in 1..Len(tasks) /\ tasks[t].pc = "verify"
    /\ tasks' = [tasks EXCEPT
            ![t].verified = verify_logo(logos[tasks[t].clinic]),
            ![t].pc = IF verify_logo(logos[tasks[t].clinic])
                      THEN "draw_logo" ELSE "render"]
    /\ UNCHANGED <<Params, Disk, MainLocals, MainState, log, logoGens>>

RenderOutcomes == {"ok", "draw_error", "save_error", "save_partial"}

\* line 260: f"Total Amount: Rs {total_amount:.2f}", from "Rs" on
TotalLine(total) == <<"R", "s", " ">> \o total

Document(total) ==
    [total |-> total, line |-> TotalLine(total), complete |-> TRUE,
     run |-> "this"]

PartialDocument ==
    [total |-> <<>>, line |-> <<>>, complete |-> FALSE, run |-> "this"]

\* what lines 210-272 leave at the destination, and how the task ends
RenderResult(task, logo, outcome, before) ==
    LET total == total_amount(task.billing_items)
    IN  IF task.pc = "draw_logo" /\ logo # "valid"
        THEN [pc |-> "failed", drawn |-> FALSE, file |-> before]
        ELSE IF outcome = "draw_error" \/ ~total.ok \/ outcome = "save_error"
        THEN [pc |-> "failed", drawn |-> task.pc = "draw_logo", file |-> before]
        ELSE IF outcome = "save_partial"
        THEN [pc |-> "failed", drawn |-> task.pc = "draw_logo",
              file |-> File(PartialDocument)]
        ELSE [pc |-> "done", drawn |-> task.pc = "draw_logo",
              file |-> File(Document(PyFmt2(total.val)))]

\* lines 210-272: drawImage, the page, the total, save; any error is caught
Render(t) ==
    /\ prog = "claims" /\ t \in 1..Len(tasks)
    /\ tasks[t].pc \in {"draw_logo", "render"}
    /\ \E outcome \in RenderOutcomes :
          LET r == RenderResult(tasks[t], logos[tasks[t].clinic], outcome,
                                outputs[PathOf(t)])
          IN  /\ tasks' = [tasks EXCEPT ![t].pc = r.pc, ![t].drawn = r.drawn]
              /\ outputs' = [outputs EXCEPT ![PathOf(t)] = r.file]
              /\ log' = IF r.pc = "failed" THEN log \cup {TaskFailed(t)}
                        ELSE log
    /\ UNCHANGED <<Params, designFile, logos, MainLocals, MainState, logoGens>>

-----------------------------------------------------------------------------
(* The states a run of the claim generator can start in                    *)

FullStyle == Design(primary_colors[1], secondary_colors[1], fonts[1])

StaleDocument ==
    [total |-> <<"1", "5", "0", "0", ".", "0", "0">>,
     line |-> TotalLine(<<"1", "5", "0", "0", ".", "0", "0">>),
     complete |-> TRUE, run |-> "earlier"]

\* what earlier runs, or an editor, can have left on the disk
DiskStates ==
    { \* a first run
      [designFile |-> NoFile(EmptyMap),
       logos |-> [c \in ClinicNames |-> "missing"],
       outputs |-> [p \in Paths |-> NoFile(NoDoc)]],
      \* after a run over both clinics
      [designFile |-> File([c \in ClinicNames |-> FullStyle]),
       logos |-> [c \in ClinicNames |-> "valid"],
       outputs |-> [p \in Paths |-> File(StaleDocument)]],
      \* after a run when only Clinic A was listed; its logo file was damaged
      [designFile |-> File("Clinic A" :> FullStyle),
       logos |-> ("Clinic A" :> "corrupt") @@ ("Clinic B" :> "missing"),
       outputs |-> [p \in Paths |->
                      IF p[2] = 0 THEN File(StaleDocument) ELSE NoFile(NoDoc)]],
      \* a design.json edited by hand: Clinic A's style has no font
      [designFile |-> File(("Clinic A" :> ("primary_color" :> primary_colors[1]))
                           @@ ("Clinic B" :> FullStyle)),
       logos |-> [c \in ClinicNames |-> "valid"],
       outputs |-> [p \in Paths |-> NoFile(NoDoc)]] }

NoArg == <<>>

\* main's locals before line 301
NothingLoaded ==
    /\ clinics_info = <<>>
    /\ doctors_info = <<>>
    /\ specialties_diseases = EmptyMap
    /\ designs = EmptyMap
    /\ billing_items_data = EmptyMap

\* no slot visited, no task submitted, nothing logged
NothingRun ==
    /\ slot = 0
    /\ tasks = <<>>
    /\ yielded = {}
    /\ pbar = 0
    /\ log = {}
    /\ skipped = {}
    /\ picked = <<>>
    /\ logoGens = [c \in ClinicNames |-> 0]

\* no generator input, a disk no run has written to, no claim requested
NoGenerator ==
    /\ files = Inputs(NoFile(<<>>), NoFile(<<>>), NoFile(EmptyMap), NoFile(EmptyMap))
    /\ logos = [c \in ClinicNames |-> "missing"]
    /\ outputs = [p \in Paths |-> NoFile(NoDoc)]
    /\ legitimate_count = 0
    /\ fraudulent_count = 0
    /\ NothingRun

InitClaims ==
    /\ prog = "claims"
    /\ pc = "load_data"
    /\ files \in InputFiles
    /\ \E d \in DiskStates :
          /\ designFile = d.designFile
          /\ logos = d.logos
          /\ outputs = d.outputs
    /\ legitimate_count \in 0..MaxSlots
    /\ fraudulent_count = MaxSlots - legitimate_count
    /\ NothingLoaded
    /\ NothingRun
    /\ links = <<>>
    /\ records = <<>>
    /\ csv = NoCsv
    /\ arg = NoArg
    /\ ret = NoArg

NextClaims ==
    \/ LoadData
    \/ LoadDesigns
    \/ LoadBilling
    \/ \E c \in 1..Len(clinics_info), d \in 1..Len(doctors_info) : Slot(c, d)
    \/ \E t \in 1..Len(tasks) : AsCompleted(t)
    \/ PoolExit
    \/ PoolExitRaised
    \/ \E t \in 1..Len(tasks) : TaskBegin(t)
    \/ \E t \in 1..Len(tasks) : GenLogoOpen(t)
    \/ \E t \in 1..Len(tasks) : GenLogoWrite(t)
    \/ \E t \in 1..Len(tasks) : VerifyLogo(t)
    \/ \E t \in 1..Len(tasks) : Render(t)

-----------------------------------------------------------------------------
(* clinic_scrapper.py                                                      *)

MaxPages == 2

LinkNames == {"link 1", "link 2"}

HttpStatuses == {"200", "404", "exception"}

\* every enumeration of a set: list(links), clinic_scrapper.py:74
Orderings(S) == { q \in [1..Cardinality(S) -> S] : Range(q) = S }

\* get_max_page_number, clinic_scrapper.py:33-51: the pagination's last page
\* number, or 1 when the request or the parse fails
get_max_page_number(status, last) == IF status = "200" THEN last ELSE 1

\* fetch_hospital_links_from_page, clinic_scrapper.py:54-77
fetch_hospital_links_from_page(status, found) ==
    IF status = "200" THEN Orderings(found) ELSE {<<>>}

NoneValue == "None"

Details(name, field, telephone, address, location) ==
    [name |-> name, field |-> field, telephone |-> telephone,
     address |-> address, location |-> location]

\* what the detail page of a link holds: all the markup, or none of it
DetailPage(link, markup) ==
    IF markup = "full"
    THEN Details(link, "Clinic", "555", "1 Main Road", "Port Louis")
    ELSE Details(NoneValue, NoneValue, NoneValue, NoneValue, NoneValue)

NoDetails == [found |-> FALSE, details |-> DetailPage("", "bare")]

\* fetch_hospital_details, clinic_scrapper.py:80-128: the record, or None
fetch_hospital_details(link, status, markup) ==
    IF status = "200" THEN [found |-> TRUE, details |-> DetailPage(link, markup)]
    ELSE NoDetails

\* a submitted fetch; seen keeps what its requests were answered with
Fetch(url) == [pc |-> "queued", url |-> url, result |-> <<>>, seen |-> <<>>]

\* logging.basicConfig(level=logging.INFO), clinic_scrapper.py:12 and
\* doctor_scrapper.py:9: a DEBUG record is dropped
Emitted(entries) == { e \in entries : e[1] # "DEBUG" }

\* what get_max_page_number logs, clinic_scrapper.py:34-51
max_page_log(status) ==
    {Logged("INFO", "Fetching max page number", 0)} \cup
    (IF status = "200" THEN {Logged("INFO", "Max page number", 0)}
     ELSE IF status = "404" THEN {Logged("ERROR", "Failed to retrieve data", 0)}
     ELSE {Logged("ERROR", "Error fetching max page number", 0)})

\* what fetch_hospital_links_from_page logs for task t, lines 55-77
links_log(status, found, t) ==
    {Logged("INFO", "Fetching hospital/clinic links", t)} \cup
    (IF status = "200"
     THEN {Logged("INFO", IF found = {} THEN "Found 0 links" ELSE "Found links", t)}
     ELSE IF status = "404" THEN {Logged("ERROR", "Failed to retrieve page", t)}
     ELSE {Logged("ERROR", "Error fetching hospital links", t)})

\* what fetch_hospital_details logs for task t, lines 81-128
details_log(status, markup, t) ==
    {Logged("INFO", "Scraping hospital/clinic details", t)} \cup
    (IF status = "200"
     THEN {Logged("INFO", "response.status", t),
           Logged("DEBUG", IF markup = "full" THEN "Scraped Name"
                           ELSE "Scraped Name: None", t),
           Logged("DEBUG", IF markup = "full" THEN "Scraped Telephone"
                           ELSE "Scraped Telephone: None", t)}
     ELSE IF status = "404"
     THEN {Logged("INFO", "response.status", t),
           Logged("ERROR", "Failed to retrieve details", t)}
     ELSE {Logged("ERROR", "Error scraping hospital details", t)})

ScraperIdle == <<files, designFile, logos, outputs, legitimate_count,
                 fraudulent_count, clinics_info, doctors_info,
                 specialties_diseases, designs, billing_items_data, slot,
                 pbar, skipped, picked, logoGens, arg, ret>>

\* scrape_hospitals, lines 135-147: the page count, then one task per page
SubmitPages ==
    /\ prog = "clinics" /\ pc = "start"
    /\ \E status \in HttpStatuses, last \in 1..MaxPages :
          /\ tasks' = [i \in 1..get_max_page_number(status, last) |-> Fetch(i)]
          /\ log' = log \cup Emitted(max_page_log(status))
    /\ pc' = "pages"
    /\ UNCHANGED <<prog, ScraperIdle, Scraped, yielded>>

\* a worker runs fetch_hospital_links_from_page
FetchPage(t) ==
    /\ prog = "clinics" /\ pc = "pages"
    /\ t \in 1..Len(tasks) /\ tasks[t].pc = "queued"
    /\ \E status \in HttpStatuses, found \in SUBSET LinkNames :
          \E r \in fetch_hospital_links_from_page(status, found) :
             /\ tasks' = [tasks EXCEPT
                    ![t].pc = "done",
                    ![t].result = r,
                    ![t].seen = <<status, IF found = {} THEN "bare" ELSE "full">>]
             /\ log' = log \cup Emitted(links_log(status, found, t))
    /\ UNCHANGED <<prog, pc, ScraperIdle, Scraped, yielded>>

\* lines 150-153
CollectPage(t) ==
    /\ prog = "clinics" /\ pc = "pages"
    /\ t \in 1..Len(tasks) /\ t \notin yielded /\ Completed(t)
    /\ yielded' = yielded \cup {t}
    /\ links' = links \o tasks[t].result
    /\ UNCHANGED <<prog, pc, ScraperIdle, records, csv, tasks, log>>

\* the first pool is left (146-155), the detail tasks are submitted (159-160)
SubmitDetails ==
    /\ prog = "clinics" /\ pc = "pages"
    /\ yielded = 1..Len(tasks)
    /\ PoolJoined
    /\ tasks' = [i \in 1..Len(links) |-> Fetch(links[i])]
    /\ yielded' = {}
    /\ pc' = "details"
    /\ UNCHANGED <<prog, ScraperIdle, Scraped, log>>

\* a worker runs fetch_hospital_details
FetchDetails(t) ==
    /\ prog = "clinics" /\ pc = "details"
    /\ t \in 1..Len(tasks) /\ tasks[t].pc = "queued"
    /\ \E status \in HttpStatuses, markup \in {"full", "bare"} :
          /\ tasks' = [tasks EXCEPT
                 ![t].pc = "done",
                 ![t].result = fetch_hospital_details(tasks[t].url, status, markup),
                 ![t].seen = <<status, markup>>]
          /\ log' = log \cup Emitted(details_log(status, markup, t))
    /\ UNCHANGED <<prog, pc, ScraperIdle, Scraped, yielded>>

\* lines 162-165
CollectDetails(t) ==
    /\ prog = "clinics" /\ pc = "details"
    /\ t \in 1..Len(tasks) /\ t \notin yielded /\ Completed(t)
    /\ yielded' = yielded \cup {t}
    /\ records' = IF tasks[t].result.found
                  THEN Append(records, tasks[t].result.details)
                  ELSE records
    /\ UNCHANGED <<prog, pc, ScraperIdle, links, csv, tasks, log>>

Written(file, header, rows) ==
    [exists |-> TRUE, data |-> [header |-> header, rows |-> rows],
     writes |-> file.writes + 1]

ClinicHeader == <<"name", "field", "telephone", "address", "location">>

\* save_to_csv, clinic_scrapper.py:173-188
save_to_csv(file, hospital_details) ==
    IF hospital_details = <<>>
    THEN [file |-> file, logged |-> {Logged("WARNING", "No hospital details to save", 0)}]
    ELSE [file |-> Written(file, ClinicHeader, hospital_details),
          logged |-> {Logged("INFO", "Hospital details saved", 0)}]

\* the second pool is left, line 170 saves
SaveClinics ==
    /\ prog = "clinics" /\ pc = "details"
    /\ yielded = 1..Len(tasks)
    /\ PoolJoined
    /\ csv' = save_to_csv(csv, records).file
    /\ log' = log \cup save_to_csv(csv, records).logged
    /\ pc' = "done"
    /\ UNCHANGED <<prog, ScraperIdle, links, records, tasks, yielded>>

NextClinics ==
    \/ SubmitPages
    \/ \E t \in 1..Len(tasks) : FetchPage(t)
    \/ \E t \in 1..Len(tasks) : CollectPage(t)
    \/ SubmitDetails
    \/ \E t \in 1..Len(tasks) : FetchDetails(t)
    \/ \E t \in 1..Len(tasks) : CollectDetails(t)
    \/ SaveClinics

-----------------------------------------------------------------------------
(* doctor_scrapper.py                                                      *)

NumLetters == 2

\* the rows of a registry table below its header row: cells per row
RowLists ==
    { <<>>,
      << <<"Dr X", "GP">> >>,
      << <<"Dr Y", "Dermatology">>, <<"Dr Z", "">>, <<"note">> >> }

\* fetch_doctors_data, doctor_scrapper.py:15-49
fetch_doctors_data(status, table, rows) ==
    IF status # "200" \/ ~table THEN <<>>
    ELSE SelectSeq(rows, LAMBDA r : Len(r) >= 2 /\ r[1] # "" /\ r[2] # "")

\* what fetch_doctors_data logs for task t, doctor_scrapper.py:16-49
doctors_log(status, table, rows, t) ==
    {Logged("INFO", "Fetching data", t)} \cup
    (IF status = "404" THEN {Logged("ERROR", "Failed to retrieve data", t)}
     ELSE IF status # "200" THEN {Logged("ERROR", "Error fetching data", t)}
     ELSE IF ~table
     THEN {Logged("INFO", "Successfully retrieved data", t),
           Logged("WARNING", "Table not found", t)}
     ELSE {Logged("INFO", "Successfully retrieved data", t),
           Logged("INFO", "Found doctor(s) and specialist(s)", t)})

\* scrape_doctors_for_alphabet, doctor_scrapper.py:52-63
scrape_doctors_for_alphabet(doctors, specialists) == doctors \o specialists

\* one task per letter, doctor_scrapper.py:83-86
SubmitLetters ==
    /\ prog = "doctors" /\ pc = "start"
    /\ tasks' = [i \in 1..NumLetters |-> Fetch(i)]
    /\ pc' = "letters"
    /\ UNCHANGED <<prog, ScraperIdle, Scraped, yielded, log>>

\* a worker runs scrape_doctors_for_alphabet: two requests
FetchLetter(t) ==
    /\ prog = "doctors" /\ pc = "letters"
    /\ t \in 1..Len(tasks) /\ tasks[t].pc = "queued"
    /\ \E s1 \in HttpStatuses, s2 \in HttpStatuses, t1 \in BOOLEAN,
          t2 \in BOOLEAN, r1 \in RowLists, r2 \in RowLists :
          /\ tasks' = [tasks EXCEPT
                 ![t].pc = "done",
                 ![t].result = scrape_doctors_for_alphabet(
                                   fetch_doctors_data(s1, t1, r1),
                                   fetch_doctors_data(s2, t2, r2)),
                 ![t].seen = <<s1, IF t1 THEN "full" ELSE "bare",
                               s2, IF t2 THEN "full" ELSE "bare">>]
          /\ log' = log \cup Emitted(doctors_log(s1, t1, r1, t)
                                     \cup doctors_log(s2, t2, r2, t))
    /\ UNCHANGED <<prog, pc, ScraperIdle, Scraped, yielded>>

\* lines 89-96
CollectLetter(t) ==
    /\ prog = "doctors" /\ pc = "letters"
    /\ t \in 1..Len(tasks) /\ t \notin yielded /\ Completed(t)
    /\ yielded' = yielded \cup {t}
    /\ records' = records \o tasks[t].result
    /\ UNCHANGED <<prog, pc, ScraperIdle, links, csv, tasks, log>>

DoctorHeader == <<"Doctor Name", "Specialty">>

\* save_doctors_to_csv, doctor_scrapper.py:66-72
save_doctors_to_csv(file, doctor_data) ==
    [file |-> Written(file, DoctorHeader, doctor_data),
     logged |-> {Logged("INFO", "Doctor and specialist data saved", 0)}]

\* the pool is left, line 99 saves
SaveDoctors ==
    /\ prog = "doctors" /\ pc = "letters"
    /\ yielded = 1..Len(tasks)
    /\ PoolJoined
    /\ csv' = save_doctors_to_csv(csv, records).file
    /\ log' = log \cup save_doctors_to_csv(csv, records).logged
    /\ pc' = "done"
    /\ UNCHANGED <<prog, ScraperIdle, links, records, tasks, yielded>>

NextDoctors ==
    \/ SubmitLetters
    \/ \E t \in 1..Len(tasks) : FetchLetter(t)
    \/ \E t \in 1..Len(tasks) : CollectLetter(t)
    \/ SaveDoctors

\* the CSV files an earlier run of a scraper can have left
OldClinicCsv ==
    OldCsv(ClinicHeader, <<DetailPage("link 1", "full")>>)

OldDoctorCsv == OldCsv(DoctorHeader, << <<"Dr X", "GP">> >>)

InitScraper(script, old) ==
    /\ prog = script
    /\ pc = "start"
    /\ NoGenerator
    /\ NothingLoaded
    /\ designFile = NoFile(EmptyMap)
    /\ links = <<>>
    /\ records = <<>>
    /\ csv \in {NoCsv, old}
    /\ arg = NoArg
    /\ ret = NoArg

Init ==
    \/ InitClaims
    \/ InitScraper("clinics", OldClinicCsv)
    \/ InitScraper("doctors", OldDoctorCsv)

Next ==
    \/ NextClaims
    \/ NextClinics
    \/ NextDoctors

Spec == Init /\ [][Next]_vars

-----------------------------------------------------------------------------
(* get_billing_items_for_diagnosis applied to bounded inputs               *)

DiagnosisNames == {"Flu", "Rash", "Cough", "Cold", "Fever"}

Restrict(f, S) == [k \in S |-> f[k]]

\* billing tables: every part of BillingTable, and each of them with an
\* entry for "Fever" that has no "billing_items" key
BillingTables ==
    LET parts == { Restrict(BillingTable, S) : S \in SUBSET DOMAIN BillingTable }
    IN  parts \cup { p @@ ("Fever" :> ("note" :> <<>>)) : p \in parts }

InitBilling ==
    /\ prog = "billing"
    /\ pc = "call"
    /\ arg \in [diagnosis : DiagnosisNames, data : BillingTables]
    /\ ret = NoArg
    /\ NoGenerator
    /\ NothingLoaded
    /\ designFile = NoFile(EmptyMap)
    /\ links = <<>>
    /\ records = <<>>
    /\ csv = NoCsv

\* line 316 / 326: the call
CallBilling ==
    /\ prog = "billing" /\ pc = "call"
    /\ ret' = get_billing_items_for_diagnosis(arg.diagnosis, arg.data)
    /\ pc' = "returned"
    /\ UNCHANGED <<prog, files, designFile, logos, outputs, legitimate_count,
                   fraudulent_count, MainLocals, slot, tasks, yielded, pbar,
                   log, skipped, picked, logoGens, Scraped, arg>>

SpecBilling == InitBilling /\ [][CallBilling]_vars

-----------------------------------------------------------------------------
(* load_or_create_designs called run after run over one design.json        *)

MaxCalls == 3

ClinicLists ==
    { <<"Clinic A">>, <<"Clinic B">>, <<"Clinic A", "Clinic B">> }

InitStore ==
    /\ prog = "store"
    /\ pc = "load_designs"
    /\ designFile \in { d.designFile : d \in DiskStates }
    /\ arg = <<>>
    /\ ret = <<>>
    /\ NoGenerator
    /\ NothingLoaded
    /\ links = <<>>
    /\ records = <<>>
    /\ csv = NoCsv

\* line 302 of one more run: arg and ret keep every call's clinic list,
\* returned designs and the design.json it left
CallDesigns(clinics) ==
    /\ prog = "store" /\ pc = "load_designs"
    /\ Len(arg) < MaxCalls
    /\ \E d \in load_or_create_designs(clinics, designFile) :
          /\ designs' = d
          /\ designFile' = DesignFileAfter(designFile, d)
          /\ ret' = Append(ret, [returned |-> d,
                                 file |-> DesignFileAfter(designFile, d)])
    /\ clinics_info' = clinics
    /\ arg' = Append(arg, clinics)
    /\ UNCHANGED <<prog, pc, files, logos, outputs, legitimate_count,
                   fraudulent_count, doctors_info, specialties_diseases,
                   billing_items_data, slot, tasks, yielded, pbar, log,
                   skipped, picked, logoGens, Scraped>>

NextStore == \E clinics \in ClinicLists : CallDesigns(clinics)

SpecStore == InitStore /\ [][NextStore]_vars

-----------------------------------------------------------------------------
(* The claims                                                              *)

Requested(kind) ==
    IF kind = "legitimate" THEN legitimate_count ELSE fraudulent_count

ProducedNow(p) == outputs[p].exists /\ outputs[p].data.run = "this"

TasksOf(kind) == { t \in 1..Len(tasks) : tasks[t].kind = kind }

\* C1: a slot whose doctor's specialty is in no diagnosis list gets no render
\* task and no document, is not drawn again and is not made up for; per kind
\* the documents of a run are at most the requested count.
C1_SkippedSlotStaysEmpty ==
    prog = "claims" =>
        /\ \A s \in skipped :
              /\ \A t \in 1..Len(tasks) : PathOf(t) # s
              /\ ~ProducedNow(s)
        /\ \A kind \in Kinds :
              /\ Cardinality(TasksOf(kind))
                    + Cardinality({s \in skipped : s[1] = kind}) <= Requested(kind)
              /\ Cardinality({p \in Paths : p[1] = kind /\ ProducedNow(p)})
                    <= Requested(kind)
              /\ \A t \in TasksOf(kind) : tasks[t].idx < Requested(kind)

\* C1's case: a finished run that skipped one slot and rendered another
C1_Witness ==
    /\ prog = "claims" /\ pc = "done"
    /\ skipped # {}
    /\ \E t \in 1..Len(tasks) : tasks[t].pc = "done" /\ ProducedNow(PathOf(t))

\* C2: a diagnosis with no entry in the billing table gets exactly the two
\* fallback lines; an entry with a non-empty billing_items list gives one
\* line per item, in order; the result is never empty.
C2_BillingLines ==
    (prog = "billing" /\ pc = "returned") =>
        LET d == arg.diagnosis
            data == arg.data
        IN  /\ d \notin DOMAIN data =>
                 ret = << <<"Consultation", "General Consultation", <<"1">>,
                            <<"1", "0", "0", "0">>, <<"1", "0", "0", "0">> >>,
                          <<"Lab Test", "General Lab Test", <<"1">>,
                            <<"5", "0", "0">>, <<"5", "0", "0">> >> >>
            /\ (/\ d \in DOMAIN data
                /\ "billing_items" \in DOMAIN data[d]
                /\ data[d]["billing_items"] # <<>>) =>
                 /\ Len(ret) = Len(data[d]["billing_items"])
                 /\ \A k \in 1..Len(ret) :
                       /\ Len(ret[k]) = 5
                       /\ ret[k][1] = data[d]["billing_items"][k]["Item"]
                       /\ ret[k][2] = data[d]["billing_items"][k]["Description"]
            /\ (d = "Flu" /\ d \in DOMAIN data) =>
                 ret = << <<"Consult", "GP visit", <<"1">>, <<"8", "0", "0">>,
                            <<"8", "0", "0">> >> >>
            /\ (d = "Rash" /\ d \in DOMAIN data) =>
                 /\ ret[1][3] = <<"2">>
                 /\ ret[1][4] = <<"3", "0", "0">>
                 /\ ret[2][5] = <<"1", "2", ".", "5">>
            /\ ret # <<>>

\* C2's case: a lookup that missed in a table that has other entries
C2_Witness ==
    /\ prog = "billing" /\ pc = "returned"
    /\ arg.diagnosis \notin DOMAIN arg.data
    /\ DOMAIN arg.data # {}
    /\ Len(ret) = 2

\* C3: a render task that fails has logged the failure, and afterwards no
\* file exists at its destination path.
C3_FailedRenderLeavesNoFile ==
    prog = "claims" =>
        \A t \in 1..Len(tasks) :
            tasks[t].pc = "failed" =>
                /\ Logged("ERROR", "Error generating claim PDF", t) \in log
                /\ ~outputs[PathOf(t)].exists

LeavesPool ==
    \/ pc \in {"as_completed", "raised", "details", "letters"} /\ pc' = "done"
    \/ pc = "pages" /\ pc' = "details"

\* C4: in each pipeline the main thread goes past a worker-pool block only
\* when every task submitted to that pool has finished or failed.
C4_NoTaskOutlivesItsBatch ==
    [][LeavesPool =>
          \A t \in 1..Len(tasks) : tasks[t].pc \in {"done", "failed"}]_vars

\* C4's case: the submit loop raised after a task was submitted, the task
\* has ended, and the fatal error is logged
C4_Witness ==
    /\ prog = "claims" /\ pc = "done"
    /\ Len(tasks) >= 1
    /\ Logged("ERROR", "Fatal error", 0) \in log

\* C5: the total a rendered document shows is the sum of its billing lines'
\* fifth column with two decimals: 800.00 for Flu's one line, 512.50 for
\* Rash's lines of 500 and 12.5 (whose quantity times unit price is 600 and
\* 12.5), 1500.00 for the two fallback lines.
C5_TotalIsSumOfLineTotals ==
    prog = "claims" =>
        \A t \in 1..Len(tasks) :
            tasks[t].pc = "done" =>
                /\ outputs[PathOf(t)].exists
                /\ outputs[PathOf(t)].data.complete
                /\ tasks[t].diagnosis \in {"Flu", "Rash"}
                /\ outputs[PathOf(t)].data.total =
                      IF ~files.billing.exists
                      THEN <<"1", "5", "0", "0", ".", "0", "0">>
                      ELSE IF tasks[t].diagnosis = "Flu"
                      THEN <<"8", "0", "0", ".", "0", "0">>
                      ELSE <<"5", "1", "2", ".", "5", "0">>

\* C5's case: a rendered claim whose line totals differ from quantity times
\* unit price
C5_Witness ==
    /\ prog = "claims"
    /\ \E t \in 1..Len(tasks) :
          /\ tasks[t].pc = "done"
          /\ tasks[t].diagnosis = "Rash"
          /\ outputs[PathOf(t)].data.run = "this"

\* C6: a task that found the logo file decodable never calls generate_logo;
\* one that found it missing or undecodable has called generate_logo before
\* it renders; the logo is drawn only after verify_logo succeeded at line 209.
C6_LogoRegeneratedWhenNeeded ==
    prog = "claims" =>
        \A t \in 1..Len(tasks) :
            /\ tasks[t].seen = "valid" =>
                  /\ ~tasks[t].regen
                  /\ tasks[t].pc \notin {"gen_logo", "gen_write"}
            /\ (/\ tasks[t].seen \in {"missing", "corrupt"}
                /\ tasks[t].pc \in {"verify", "draw_logo", "render", "done",
                                    "failed"}) => tasks[t].regen
            /\ tasks[t].drawn => tasks[t].verified
            /\ tasks[t].pc = "draw_logo" => tasks[t].verified
            /\ tasks[t].pc = "render" => ~tasks[t].verified

\* C6's case: a corrupted logo file was regenerated, verified and drawn
C6_Witness ==
    /\ prog = "claims"
    /\ \E t \in 1..Len(tasks) :
          /\ tasks[t].seen = "corrupt"
          /\ tasks[t].regen
          /\ tasks[t].drawn
          /\ tasks[t].pc = "done"

\* an input load_data must refuse: a table that is missing or has no rows
RefusedInput ==
    \/ ~files.clinics.exists
    \/ files.clinics.data = <<>>
    \/ ~files.doctors.exists
    \/ files.doctors.data = <<>>
    \/ ~files.specialties.exists
    \/ DOMAIN files.specialties.data = {}

\* C7: with a clinic CSV or doctor CSV without rows, an empty specialty
\* mapping or a missing input file, load_data raises: the run ends with the
\* errors logged, design.json is never written and no task is submitted.
C7_LoadDataRefusesEmptyInput ==
    /\ []((prog = "claims" /\ RefusedInput) =>
            /\ pc \in {"load_data", "done"}
            /\ tasks = <<>>
            /\ designs = EmptyMap
            /\ clinics_info = <<>>
            /\ pc = "done" =>
                  /\ Logged("ERROR", "Error loading data", 0) \in log
                  /\ Logged("ERROR", "Fatal error", 0) \in log
                  /\ Logged("INFO", "Successfully generated", 0) \notin log)
    /\ [][(prog = "claims" /\ RefusedInput) => designFile' = designFile]_vars

\* C7's case: the clinic CSV has a header and no rows, and the run has ended
C7_Witness ==
    /\ prog = "claims" /\ pc = "done"
    /\ files.clinics.exists /\ files.clinics.data = <<>>
    /\ Logged("ERROR", "Fatal error", 0) \in log

\* C8: once design.json exists, every later call of load_or_create_designs,
\* whatever its clinic list, leaves the file as the first call left it and
\* returns for each clinic of the store the style the first call returned.
C8_DesignsStableOverRuns ==
    prog = "store" =>
        \A k \in 2..Len(ret) :
            /\ ret[k].file = ret[1].file
            /\ \A c \in DOMAIN ret[1].file.data :
                  /\ c \in DOMAIN ret[k].returned
                  /\ ret[k].returned[c] = ret[1].returned[c]

\* C8's case: the first call created the store for its clinic list and two
\* more calls followed, the second with another clinic list
C8_Witness ==
    /\ prog = "store"
    /\ Len(ret) >= 3
    /\ DOMAIN ret[1].returned = Range(arg[1])
    /\ Range(arg[2]) # Range(arg[1])
    /\ ret[1].returned \in [Range(arg[1]) -> Styles]

\* C9: the store only grows: a call keeps every entry the file had, and
\* after it every clinic of its clinic list has a style.
C9_EveryListedClinicHasStyle ==
    prog = "store" =>
        \A k \in 1..Len(ret) :
            /\ \A c \in Range(arg[k]) : c \in DOMAIN ret[k].returned
            /\ k > 1 =>
                  \A c \in DOMAIN ret[k - 1].file.data :
                      /\ c \in DOMAIN ret[k].file.data
                      /\ ret[k].file.data[c] = ret[k - 1].file.data[c]

\* C10: a scraper that ends with no record has not written its CSV and has
\* logged a warning; one that ends with records has written it exactly once;
\* nothing is written while the scraper still runs.
C10_CsvSkippedWhenEmpty ==
    prog \in {"clinics", "doctors"} =>
        IF pc = "done"
        THEN IF records = <<>>
             THEN /\ csv.writes = 0
                  /\ \E e \in log : e[1] = "WARNING"
             ELSE csv.writes = 1
        ELSE csv.writes = 0

\* which fetches the tasks of the pool are
Phase ==
    IF prog = "doctors" THEN "letters"
    ELSE IF pc = "pages" THEN "pages" ELSE "details"

\* a finished fetch that met a non-200 answer, a transport error or a page
\* without the expected markup
Unanswered(t) ==
    /\ tasks[t].pc = "done"
    /\ \E k \in 1..Len(tasks[t].seen) : tasks[t].seen[k] \in {"404", "exception", "bare"}

\* the log entries that tell of such a fetch
FailureEvents ==
    [pages |-> {"Failed to retrieve page", "Error fetching hospital links",
                "Found 0 links"},
     details |-> {"Failed to retrieve details", "Error scraping hospital details",
                  "Scraped Name: None", "Scraped Telephone: None"},
     letters |-> {"Failed to retrieve data", "Error fetching data",
                  "Table not found"}]

\* C11, the failing fetch: it gives an empty result, or a record whose
\* fields are absent, and the log tells of it
C11_FailureIsEmptyAndLogged ==
    \A t \in 1..Len(tasks) :
        Unanswered(t) =>
            /\ \E e \in log : e[3] = t /\ e[2] \in FailureEvents[Phase]
            /\ Phase = "pages" => tasks[t].result = <<>>
            /\ Phase = "details" =>
                  IF tasks[t].seen[1] = "200"
                  THEN /\ tasks[t].result.found
                       /\ \A f \in DOMAIN tasks[t].result.details :
                             tasks[t].result.details[f] = NoneValue
                  ELSE ~tasks[t].result.found
            /\ (Phase = "letters"
                  /\ \A k \in {1, 3} : tasks[t].seen[k] # "200"
                                         \/ tasks[t].seen[k + 1] = "bare") =>
                  tasks[t].result = <<>>

\* C11, the run: no fetch ends the run, and at the end every fetch has been
\* collected
C11_RunGoesOn ==
    /\ \A t \in 1..Len(tasks) : tasks[t].pc \in {"queued", "done"}
    /\ pc = "done" => yielded = 1..Len(tasks)

\* C11, the others: what every collected fetch returned is in the collected
\* output, and what is collected at the end is what the CSV holds
C11_OthersKept ==
    /\ Phase = "pages" =>
          /\ \A t \in yielded : Range(tasks[t].result) \subseteq Range(links)
          /\ Len(links) = SeqSum([t \in 1..Len(tasks) |->
                                    IF t \in yielded THEN Len(tasks[t].result)
                                    ELSE 0])
    /\ (Phase = "details" /\ pc # "start") =>
          /\ Len(tasks) = Len(links)
          /\ \A i \in 1..Len(links) : tasks[i].url = links[i]
          /\ \A t \in yielded :
                tasks[t].result.found =>
                    \E k \in 1..Len(records) : records[k] = tasks[t].result.details
          /\ Len(records) = Cardinality({t \in yielded : tasks[t].result.found})
    /\ Phase = "letters" =>
          /\ \A t \in yielded : Range(tasks[t].result) \subseteq Range(records)
          /\ Len(records) = SeqSum([t \in 1..Len(tasks) |->
                                      IF t \in yielded THEN Len(tasks[t].result)
                                      ELSE 0])
    /\ (pc = "done" /\ records # <<>>) => csv.data.rows = records

\* C11: in both scrapers a page or item that answers non-200, raises a
\* transport error or lacks the expected markup gives an empty result (or a
\* record with absent fields) and the log tells of it; it never ends the
\* run; every record of the other pages and items is in the collected output.
C11_ScrapersFailSoft ==
    prog \in {"clinics", "doctors"} =>
        /\ C11_FailureIsEmptyAndLogged
        /\ C11_RunGoesOn
        /\ C11_OthersKept

\* the input files of the example: one clinic, one doctor of specialty GP,
\* GP mapped to Flu, Flu billed with the one line Consult / GP visit / 1 /
\* 800 / 800
ExampleFiles == Inputs(OneClinic, OneDoctor, OneDiagnosis, File(BillingTable))

\* the run has ended and has logged no error
EndedWithoutError == pc = "done" /\ \A e \in log : e[1] # "ERROR"

ReadLogo(t) == tasks[t].seen # "none"

\* C13: no render task writes a file that another task of the batch reads
\* or writes, neither its clinic's logo image nor its output document, and
\* in one batch generate_logo runs at most once per clinic.
C13_TasksShareNoFile ==
    prog = "claims" =>
        /\ \A t \in 1..Len(tasks) : \A u \in 1..Len(tasks) :
              t # u =>
                  /\ PathOf(t) # PathOf(u)
                  /\ tasks[t].wrote =>
                        ~(tasks[u].clinic = tasks[t].clinic /\ ReadLogo(u))
        /\ \A c \in ClinicNames : logoGens[c] <= 1

\* slot k picked a clinic that has no entry in the loaded style store
Unstyled(k) == picked[k].clinic \notin DOMAIN designs

\* the doctor slot k picked has a specialty with a diagnosis list
Diagnosable(k) == picked[k].doctor[2] \in DOMAIN specialties_diseases

\* slot k was the last slot visited: the loop has raised, k and the slots
\* after it have no task, and once the run has ended every task submitted
\* before has finished or failed, the fatal error is logged and the success
\* message is not
EndsBatch(k) ==
    /\ k = Len(picked)
    /\ pc \in {"raised", "done"}
    /\ \A t \in 1..Len(tasks) : PathOf(t) # <<picked[k].kind, picked[k].idx>>
    /\ Len(tasks) < k
    /\ pc = "done" =>
          /\ \A t \in 1..Len(tasks) : tasks[t].pc \in {"done", "failed"}
          /\ Logged("ERROR", "Fatal error", 0) \in log
          /\ Logged("INFO", "Successfully generated", 0) \notin log

\* C14 as stated: a slot that picks a clinic without a style in the store
\* ends the batch.
C14_UnstyledClinicEndsBatch ==
    prog = "claims" =>
        \A k \in 1..Len(picked) : Unstyled(k) => EndsBatch(k)

\* C14, amended: a slot whose doctor's specialty has a diagnosis list and
\* that picks a clinic without a style in the store ends the batch: the
\* lookup raises in the submit loop, no later slot is submitted, the tasks
\* already submitted finish before the run ends, and the success message is
\* not logged.
C14_UnstyledLookupEndsBatch ==
    prog = "claims" =>
        \A k \in 1..Len(picked) :
            (Unstyled(k) /\ Diagnosable(k)) => EndsBatch(k)

\* C14's case: the second slot's lookup failed after the first slot's task
\* was submitted; the run has ended and that task has rendered its claim
C14_Witness ==
    /\ prog = "claims" /\ pc = "done"
    /\ Len(picked) = 2 /\ Unstyled(2) /\ Diagnosable(2)
    /\ Len(tasks) = 1 /\ tasks[1].pc = "done"

====
